---- MODULE Spec2Model ----
(***************************************************************************)
(* Model of the Prisma MySQL driver adapter: the column type              *)
(* classification of src/conversion.ts and the queryable / transaction    *)
(* objects of src/mysql.ts.                                                *)
(***************************************************************************)
EXTENDS Integers, Sequences, FiniteSets, TLC

VARIABLES
    field,      \* the FieldPacket handed to fieldToColumnType
    ret,        \* outcome of the last fieldToColumnType call
    op,         \* last operation run on the queryable
    reply,      \* what the server answers the next request with
    options,    \* QueryOptions handed to client.query by that operation
    outcome,    \* what client.query did: resolved [data, fields] or rejected e
    result,     \* what the operation did: ok(value), err(error) or threw e
    free,       \* connections the pool holds idle
    txs         \* the MySqlTransaction objects created so far

vars == <<field, ret, reply, op, options, outcome, result, free, txs>>

(***************************************************************************)
(* JavaScript values                                                       *)
(***************************************************************************)

\* the value `undefined` of a numeric property (columnType?, columnLength?, code?)
Undefined == 0 - 1

\* the value `undefined` of a string property (message, state, lastInsertId)
NoString == "<undefined>"

\* JavaScript truthiness of a number-or-undefined value
Truthy(n) == n # Undefined /\ n # 0

RECURSIVE BitAnd(_, _)
\* the & operator on non-negative integers
BitAnd(x, y) ==
    IF x = 0 \/ y = 0 THEN 0
    ELSE (x % 2) * (y % 2) + 2 * BitAnd(x \div 2, y \div 2)

(***************************************************************************)
(* conversion.ts: constant tables                                          *)
(***************************************************************************)

MySqlCodes ==
    0 :> "DECIMAL" @@ 1 :> "TINY" @@ 2 :> "SHORT" @@ 3 :> "LONG" @@
    4 :> "FLOAT" @@ 5 :> "DOUBLE" @@ 6 :> "NULL" @@ 7 :> "TIMESTAMP" @@
    8 :> "LONGLONG" @@ 9 :> "INT24" @@ 10 :> "DATE" @@ 11 :> "TIME" @@
    12 :> "DATETIME" @@ 13 :> "YEAR" @@ 14 :> "NEWDATE" @@ 15 :> "VARCHAR" @@
    16 :> "BIT" @@ 245 :> "JSON" @@ 246 :> "NEWDECIMAL" @@ 247 :> "ENUM" @@
    248 :> "SET" @@ 249 :> "TINY_BLOB" @@ 250 :> "MEDIUM_BLOB" @@
    251 :> "LONG_BLOB" @@ 252 :> "BLOB" @@ 253 :> "VAR_STRING" @@
    254 :> "STRING" @@ 255 :> "GEOMETRY"

MySqlTypes ==
    "DECIMAL" :> 0 @@ "TINY" :> 1 @@ "SHORT" :> 2 @@ "LONG" :> 3 @@
    "FLOAT" :> 4 @@ "DOUBLE" :> 5 @@ "NULL" :> 6 @@ "TIMESTAMP" :> 7 @@
    "LONGLONG" :> 8 @@ "INT24" :> 9 @@ "DATE" :> 10 @@ "TIME" :> 11 @@
    "DATETIME" :> 12 @@ "YEAR" :> 13 @@ "NEWDATE" :> 14 @@ "VARCHAR" :> 15 @@
    "BIT" :> 16 @@ "JSON" :> 245 @@ "NEWDECIMAL" :> 246 @@ "ENUM" :> 247 @@
    "SET" :> 248 @@ "TINY_BLOB" :> 249 @@ "MEDIUM_BLOB" :> 250 @@
    "LONG_BLOB" :> 251 @@ "BLOB" :> 252 @@ "VAR_STRING" :> 253 @@
    "STRING" :> 254 @@ "GEOMETRY" :> 255

MySqlFlags ==
    "NOT_NULL" :> 1 @@ "PRI_KEY" :> 2 @@ "UNIQUE_KEY" :> 4 @@
    "MULTIPLE_KEY" :> 8 @@ "BLOB" :> 16 @@ "UNSIGNED" :> 32 @@
    "ZEROFILL" :> 64 @@ "BINARY" :> 128 @@ "ENUM" :> 256 @@
    "AUTO_INCREMENT" :> 512 @@ "TIMESTAMP" :> 1024 @@ "SET" :> 2048 @@
    "NO_DEFAULT_VALUE" :> 4096 @@ "ON_UPDATE_NOW" :> 8192 @@ "NUM" :> 32768

(***************************************************************************)
(* conversion.ts: the rule predicates                                      *)
(***************************************************************************)

\* flags & target, used as a truth value by the callers
hasFlag(flags, target) == BitAnd(flags, target)

isReal(f) ==
    f.columnType = MySqlTypes["DECIMAL"] \/ f.columnType = MySqlTypes["NEWDECIMAL"]

isFloat(f) == f.columnType = MySqlTypes["FLOAT"]

isDouble(f) == f.columnType = MySqlTypes["DOUBLE"]

\* isInt32 without the UNSIGNED test on LONG
isInt32IgnoringUnsigned(f) ==
    \/ f.columnType = MySqlTypes["TINY"]
    \/ f.columnType = MySqlTypes["SHORT"]
    \/ f.columnType = MySqlTypes["YEAR"]
    \/ f.columnType = MySqlTypes["LONG"]
    \/ (f.columnType = MySqlTypes["INT24"] /\ ~Truthy(hasFlag(f.flags, MySqlFlags["UNSIGNED"])))

isInt32(f) ==
    \/ f.columnType = MySqlTypes["TINY"]
    \/ f.columnType = MySqlTypes["SHORT"]
    \/ f.columnType = MySqlTypes["YEAR"]
    \/ (f.columnType = MySqlTypes["LONG"] /\ ~Truthy(hasFlag(f.flags, MySqlFlags["UNSIGNED"])))
    \/ (f.columnType = MySqlTypes["INT24"] /\ ~Truthy(hasFlag(f.flags, MySqlFlags["UNSIGNED"])))

isInt64(f) ==
    \/ f.columnType = MySqlTypes["LONGLONG"]
    \/ (f.columnType = MySqlTypes["LONG"] /\ Truthy(hasFlag(f.flags, MySqlFlags["UNSIGNED"])))
    \/ (f.columnType = MySqlTypes["INT24"] /\ Truthy(hasFlag(f.flags, MySqlFlags["UNSIGNED"])))

isDateTime(f) ==
    f.columnType = MySqlTypes["TIMESTAMP"] \/ f.columnType = MySqlTypes["DATETIME"]

isTime(f) == f.columnType = MySqlTypes["TIME"]

isDate(f) ==
    f.columnType = MySqlTypes["DATE"] \/ f.columnType = MySqlTypes["NEWDATE"]

\* isText without the character set test on BLOB
isTextAnyBlob(f) ==
    \/ f.columnType = MySqlTypes["VARCHAR"]
    \/ f.columnType = MySqlTypes["VAR_STRING"]
    \/ f.columnType = MySqlTypes["STRING"]
    \/ (f.columnType = MySqlTypes["TINY_BLOB"] /\ f.characterSet # 63)
    \/ (f.columnType = MySqlTypes["MEDIUM_BLOB"] /\ f.characterSet # 63)
    \/ (f.columnType = MySqlTypes["LONG_BLOB"] /\ f.characterSet # 63)
    \/ f.columnType = MySqlTypes["BLOB"]

isText(f) ==
    \/ f.columnType = MySqlTypes["VARCHAR"]
    \/ f.columnType = MySqlTypes["VAR_STRING"]
    \/ f.columnType = MySqlTypes["STRING"]
    \/ (f.columnType = MySqlTypes["TINY_BLOB"] /\ f.characterSet # 63)
    \/ (f.columnType = MySqlTypes["MEDIUM_BLOB"] /\ f.characterSet # 63)
    \/ (f.columnType = MySqlTypes["LONG_BLOB"] /\ f.characterSet # 63)
    \/ (f.columnType = MySqlTypes["BLOB"] /\ f.characterSet # 63)

isBytes(f) ==
    \/ (f.columnType = MySqlTypes["TINY_BLOB"] /\ f.characterSet = 63)
    \/ (f.columnType = MySqlTypes["MEDIUM_BLOB"] /\ f.characterSet = 63)
    \/ (f.columnType = MySqlTypes["LONG_BLOB"] /\ f.characterSet = 63)
    \/ (f.columnType = MySqlTypes["BLOB"] /\ f.characterSet = 63)
    \/ (f.columnType = MySqlTypes["BIT"] /\ Truthy(f.columnLength) /\ f.columnLength > 1)

isBool(f) == f.columnType = MySqlTypes["BIT"] /\ f.columnLength = 1

isJson(f) == f.columnType = MySqlTypes["JSON"]

isEnum(f) ==
    f.columnType = MySqlTypes["ENUM"] \/ Truthy(hasFlag(f.flags, MySqlFlags["ENUM"]))

isNull(f) == f.columnType = MySqlTypes["NULL"]

\* UnsupportedNativeDataType that never resolves the name of the code
UnsupportedNativeDataTypeUnnamed(f) == "Unknown"

\* new UnsupportedNativeDataType(field).type
UnsupportedNativeDataType(f) ==
    IF Truthy(f.columnType) /\ f.columnType \in DOMAIN MySqlCodes
    THEN MySqlCodes[f.columnType]
    ELSE "Unknown"

Return(t) == [kind |-> "return", type |-> t]

Throw(t) == [kind |-> "throw", type |-> t]

fieldToColumnType(f) ==
    IF isReal(f) THEN Return("Numeric")
    ELSE IF isFloat(f) THEN Return("Float")
    ELSE IF isDouble(f) THEN Return("Double")
    ELSE IF isInt32(f) THEN Return("Int32")
    ELSE IF isInt64(f) THEN Return("Int64")
    ELSE IF isDateTime(f) THEN Return("DateTime")
    ELSE IF isTime(f) THEN Return("Time")
    ELSE IF isDate(f) THEN Return("Date")
    ELSE IF isText(f) THEN Return("Text")
    ELSE IF isBytes(f) THEN Return("Bytes")
    ELSE IF isBool(f) THEN Return("Boolean")
    ELSE IF isJson(f) THEN Return("Json")
    ELSE IF isEnum(f) THEN Return("Enum")
    ELSE IF isNull(f) THEN Return("Int32")
    ELSE Throw(UnsupportedNativeDataType(f))

\* typeCast that leaves LONGLONG to the driver default
typeCastNativeLongLong(typeName) ==
    IF typeName = "TIMESTAMP" THEN "string"
    ELSE IF typeName = "DATETIME" THEN "string"
    ELSE IF typeName = "DATE" THEN "string"
    ELSE "next"

\* typeCast(field, next): "string" is field.string(), "next" the driver default
typeCast(typeName) ==
    IF typeName = "TIMESTAMP" THEN "string"
    ELSE IF typeName = "DATETIME" THEN "string"
    ELSE IF typeName = "DATE" THEN "string"
    ELSE IF typeName = "LONGLONG" THEN "string"
    ELSE "next"

(***************************************************************************)
(* Inputs of the classifier                                                *)
(***************************************************************************)

\* wire codes absent from MySqlCodes, and a FieldPacket without columnType
AbsentCodes == {17, 244, Undefined}

ColumnTypes == DOMAIN MySqlCodes \cup AbsentCodes

\* every combination of NOT_NULL, UNSIGNED, BINARY and ENUM
FlagValues == {a + b + c + d : a \in {0, 1}, b \in {0, 32}, c \in {0, 128}, d \in {0, 256}}

CharacterSets == {5, 63, 255}

ColumnLengths == {Undefined, 0, 1, 2, 64}

Fields ==
    [name : {"c"}, columnType : ColumnTypes, flags : FlagValues,
     characterSet : CharacterSets, columnLength : ColumnLengths]

NotCalled == [kind |-> "none", type |-> ""]

NoOptions == [rowsAsArray |-> FALSE, typeCast |-> FALSE]

Idle == [kind |-> "none"]

InitClassify ==
    /\ field \in Fields
    /\ ret = NotCalled
    /\ reply = Idle
    /\ op = "none"
    /\ options = NoOptions
    /\ outcome = Idle
    /\ result = Idle
    /\ free = {}
    /\ txs = <<>>

Classify ==
    /\ ret = NotCalled
    /\ ret' = fieldToColumnType(field)
    /\ UNCHANGED <<field, reply, op, options, outcome, result, free, txs>>

NextClassify == Classify

SpecClassify == InitClassify /\ [][NextClassify]_vars

(***************************************************************************)
(* mysql.ts: MySqlQueryable                                                *)
(***************************************************************************)

MaxFields == 3

MaxRows == 1

Ok(v) == [kind |-> "ok", value |-> v]

Err(e) == [kind |-> "err", error |-> e]

Raise(e) == [kind |-> "throw", error |-> e]

Digit == <<"0", "1", "2", "3", "4", "5", "6", "7", "8", "9">>

RECURSIVE toString(_)
\* Number.prototype.toString of a non-negative integer
toString(n) ==
    IF n < 10 THEN Digit[n + 1] ELSE toString(n \div 10) \o Digit[(n % 10) + 1]

\* the columns the server can describe in a result
FieldPool ==
    { [name |-> "id", columnType |-> 8, flags |-> 33, characterSet |-> 63, columnLength |-> 20],
      [name |-> "seen", columnType |-> 7, flags |-> 1024, characterSet |-> 63, columnLength |-> 19],
      [name |-> "made", columnType |-> 12, flags |-> 128, characterSet |-> 63, columnLength |-> 19],
      [name |-> "day", columnType |-> 10, flags |-> 128, characterSet |-> 63, columnLength |-> 10],
      [name |-> "at", columnType |-> 11, flags |-> 128, characterSet |-> 63, columnLength |-> 10],
      [name |-> "n", columnType |-> 3, flags |-> 0, characterSet |-> 63, columnLength |-> 11],
      [name |-> "kind", columnType |-> 254, flags |-> 256, characterSet |-> 255, columnLength |-> 4],
      [name |-> "tags", columnType |-> 248, flags |-> 0, characterSet |-> 255, columnLength |-> 8],
      [name |-> "shape", columnType |-> 255, flags |-> 128, characterSet |-> 63, columnLength |-> 0] }

FieldLists == UNION {[1..n -> FieldPool] : n \in 0..MaxFields}

\* the failures client.query can reject with: any of code, message and
\* state may be missing
Failures ==
    [code : {Undefined, 0, 1045}, message : {NoString, "Access denied"},
     state : {NoString, "28000"}]

Queries == [sql : {"SELECT", "INSERT"}, args : {<<>>}]

\* field.type as the driver hands it to a typeCast callback
DriverTypeName(f) ==
    IF f.columnType \in DOMAIN MySqlCodes THEN MySqlCodes[f.columnType] ELSE NoString

\* how the driver decodes one value of column f under the given options
Decode(opts, f) ==
    IF opts.typeCast THEN typeCast(DriverTypeName(f)) ELSE "next"

\* every answer of the server: a result set of n rows described by fs, a
\* result header, or a failure the driver raises
Replies ==
    { [kind |-> "rows", fields |-> fs, count |-> n, insertId |-> Undefined,
       affectedRows |-> Undefined, error |-> NoString] :
          fs \in FieldLists, n \in 0..MaxRows }
    \cup
    { [kind |-> "header", fields |-> <<>>, count |-> 0, insertId |-> id,
       affectedRows |-> a, error |-> NoString] : id \in {0, 12}, a \in {0, 1} }
    \cup
    { [kind |-> "failure", fields |-> <<>>, count |-> 0, insertId |-> Undefined,
       affectedRows |-> Undefined, error |-> e] : e \in Failures }

\* how client.query(opts) settles on the server's answer r
ClientQuery(opts, r) ==
    CASE r.kind = "rows" ->
           [kind |-> "resolve",
            data |-> [isArray |-> TRUE, asArray |-> opts.rowsAsArray,
                      rows |-> [k \in 1..r.count |->
                                  [i \in 1..Len(r.fields) |-> Decode(opts, r.fields[i])]],
                      insertId |-> Undefined, affectedRows |-> Undefined],
            hasFields |-> TRUE, fields |-> r.fields]
      [] r.kind = "header" ->
           [kind |-> "resolve",
            data |-> [isArray |-> FALSE, asArray |-> FALSE, rows |-> <<>>,
                      insertId |-> r.insertId, affectedRows |-> r.affectedRows],
            hasFields |-> FALSE, fields |-> <<>>]
      [] r.kind = "failure" -> [kind |-> "reject", error |-> r.error]

\* performIO that forgets the state of the failure
performIOWithoutState(o) ==
    IF o.kind = "resolve"
    THEN Ok([data |-> o.data, fields |-> IF o.hasFields THEN o.fields ELSE <<>>])
    ELSE IF Truthy(o.error.code)
         THEN Err([kind |-> "Mysql", code |-> o.error.code,
                   message |-> o.error.message, state |-> NoString])
         ELSE Raise(o.error)

\* performIO that converts every failure
performIOConvertingAll(o) ==
    IF o.kind = "resolve"
    THEN Ok([data |-> o.data, fields |-> IF o.hasFields THEN o.fields ELSE <<>>])
    ELSE Err([kind |-> "Mysql", code |-> o.error.code,
              message |-> o.error.message, state |-> o.error.state])

\* performIO, given the way client.query(options) settled
performIO(o) ==
    IF o.kind = "resolve"
    THEN Ok([data |-> o.data, fields |-> IF o.hasFields THEN o.fields ELSE <<>>])
    ELSE IF Truthy(o.error.code)
         THEN Err([kind |-> "Mysql", code |-> o.error.code,
                   message |-> o.error.message, state |-> o.error.state])
         ELSE Raise(o.error)

QueryRawOptions(query) ==
    [sql |-> query.sql, values |-> query.args, rowsAsArray |-> TRUE, typeCast |-> TRUE]

ExecuteRawOptions(query) ==
    [sql |-> query.sql, values |-> query.args, rowsAsArray |-> FALSE, typeCast |-> FALSE]

\* the fields fieldToColumnType throws on
Unclassifiable(fields) ==
    {i \in 1..Len(fields) : fieldToColumnType(fields[i]).kind = "throw"}

\* the part of queryRaw after performIO that leaves unclassifiable fields out
marshalSkippingUnsupported(res) ==
    IF res.kind # "ok" THEN res
    ELSE LET fields == res.value.fields
             data == res.value.data
             good == SelectSeq(fields, LAMBDA f : fieldToColumnType(f).kind = "return")
         IN Ok([columnNames |-> [i \in 1..Len(fields) |-> fields[i].name],
                columnTypes |-> [i \in 1..Len(good) |-> fieldToColumnType(good[i]).type],
                rows |-> IF data.isArray THEN data.rows ELSE <<>>,
                lastInsertId |-> IF data.insertId # Undefined
                                 THEN toString(data.insertId) ELSE NoString])

\* the part of queryRaw after performIO
marshal(res) ==
    IF res.kind # "ok" THEN res
    ELSE LET fields == res.value.fields
             data == res.value.data
             bad == Unclassifiable(fields)
         IN IF bad # {}
            THEN Err([kind |-> "UnsupportedNativeDataType",
                      type |-> fieldToColumnType(
                                  fields[CHOOSE i \in bad : \A j \in bad : i <= j]).type])
            ELSE Ok([columnNames |-> [i \in 1..Len(fields) |-> fields[i].name],
                     columnTypes |-> [i \in 1..Len(fields) |-> fieldToColumnType(fields[i]).type],
                     rows |-> IF data.isArray THEN data.rows ELSE <<>>,
                     lastInsertId |-> IF data.insertId # Undefined
                                      THEN toString(data.insertId) ELSE NoString])

queryRaw(o) == marshal(performIO(o))

executeRaw(o) ==
    LET res == performIO(o)
    IN IF res.kind # "ok" THEN res ELSE Ok(res.value.data.affectedRows)

InitQuery ==
    /\ field = [name |-> "c", columnType |-> 0, flags |-> 0, characterSet |-> 63,
                columnLength |-> 0]
    /\ ret = NotCalled
    /\ reply \in Replies
    /\ op = "none"
    /\ options = NoOptions
    /\ outcome = Idle
    /\ result = Idle
    /\ free = {}
    /\ txs = <<>>

QueryRaw ==
    \E query \in Queries :
        LET o == ClientQuery(QueryRawOptions(query), reply)
        IN /\ op' = "queryRaw"
           /\ options' = QueryRawOptions(query)
           /\ outcome' = o
           /\ result' = queryRaw(o)
           /\ UNCHANGED <<field, ret, reply, free, txs>>

ExecuteRaw ==
    \E query \in Queries :
        LET o == ClientQuery(ExecuteRawOptions(query), reply)
        IN /\ op' = "executeRaw"
           /\ options' = ExecuteRawOptions(query)
           /\ outcome' = o
           /\ result' = executeRaw(o)
           /\ UNCHANGED <<field, ret, reply, free, txs>>

NextQuery == QueryRaw \/ ExecuteRaw

SpecQuery == InitQuery /\ [][NextQuery]_vars

(***************************************************************************)
(* mysql.ts: PrismaMySql.startTransaction and MySqlTransaction             *)
(***************************************************************************)

PoolSize == 2

MaxTx == 2

MaxCalls == 2

Connections == 1..PoolSize

\* calls of commit and rollback made on a transaction so far
CallsOn(t) == t.commits + t.rollbacks

InitTx ==
    /\ field = [name |-> "c", columnType |-> 0, flags |-> 0, characterSet |-> 63,
                columnLength |-> 0]
    /\ ret = NotCalled
    /\ reply = Idle
    /\ op = "none"
    /\ options = NoOptions
    /\ outcome = Idle
    /\ result = Idle
    /\ free = Connections
    /\ txs = <<>>

\* startTransaction: getConnection takes an idle connection out of the pool
startTransaction ==
    /\ Len(txs) < MaxTx
    /\ \E connection \in free :
          /\ free' = free \ {connection}
          /\ txs' = Append(txs, [client |-> connection, usePhantomQuery |-> FALSE,
                                 commits |-> 0, rollbacks |-> 0, releases |-> 0])
    /\ op' = "startTransaction"
    /\ result' = Ok(Len(txs) + 1)
    /\ UNCHANGED <<field, ret, reply, options, outcome>>

commit(t) ==
    /\ t \in 1..Len(txs)
    /\ CallsOn(txs[t]) < MaxCalls
    /\ free' = free \cup {txs[t].client}
    /\ txs' = [txs EXCEPT ![t].commits = @ + 1, ![t].releases = @ + 1]
    /\ op' = "commit"
    /\ result' = Ok(0)
    /\ UNCHANGED <<field, ret, reply, options, outcome>>

\* rollback that keeps the connection
rollbackWithoutRelease(t) ==
    /\ t \in 1..Len(txs)
    /\ CallsOn(txs[t]) < MaxCalls
    /\ txs' = [txs EXCEPT ![t].rollbacks = @ + 1]
    /\ op' = "rollback"
    /\ result' = Ok(0)
    /\ UNCHANGED <<field, ret, reply, options, outcome, free>>

rollback(t) ==
    /\ t \in 1..Len(txs)
    /\ CallsOn(txs[t]) < MaxCalls
    /\ free' = free \cup {txs[t].client}
    /\ txs' = [txs EXCEPT ![t].rollbacks = @ + 1, ![t].releases = @ + 1]
    /\ op' = "rollback"
    /\ result' = Ok(0)
    /\ UNCHANGED <<field, ret, reply, options, outcome>>

NextTx ==
    \/ startTransaction
    \/ \E t \in 1..MaxTx : commit(t)
    \/ \E t \in 1..MaxTx : rollback(t)

SpecTx == InitTx /\ [][NextTx]_vars

(***************************************************************************)
(* Properties of the classifier                                            *)
(***************************************************************************)

\* the codes named by rules 1-14: every code of the table but SET and GEOMETRY
SupportedCodes == DOMAIN MySqlCodes \ {248, 255}

Called == ret # NotCalled

UnsignedBit(f) == (f.flags \div 32) % 2 = 1

EnumBit(f) == (f.flags \div 256) % 2 = 1

\* the ordered rule table of the classification contract, rule by rule
TableRule(i, f) ==
    CASE i = 1 -> f.columnType \in {0, 246}
      [] i = 2 -> f.columnType = 4
      [] i = 3 -> f.columnType = 5
      [] i = 4 -> f.columnType \in {1, 2, 13} \/ (f.columnType \in {3, 9} /\ ~UnsignedBit(f))
      [] i = 5 -> f.columnType = 8 \/ (f.columnType \in {3, 9} /\ UnsignedBit(f))
      [] i = 6 -> f.columnType \in {7, 12}
      [] i = 7 -> f.columnType = 11
      [] i = 8 -> f.columnType \in {10, 14}
      [] i = 9 -> f.columnType \in {15, 253, 254}
                    \/ (f.columnType \in {249, 250, 251, 252} /\ f.characterSet # 63)
      [] i = 10 -> (f.columnType \in {249, 250, 251, 252} /\ f.characterSet = 63)
                    \/ (f.columnType = 16 /\ f.columnLength > 1)
      [] i = 11 -> f.columnType = 16 /\ f.columnLength = 1
      [] i = 12 -> f.columnType = 245
      [] i = 13 -> f.columnType = 247 \/ EnumBit(f)
      [] i = 14 -> f.columnType = 6

TableResult ==
    <<"Numeric", "Float", "Double", "Int32", "Int64", "DateTime", "Time",
      "Date", "Text", "Bytes", "Boolean", "Json", "Enum", "Int32">>

TableMatches(f) == {i \in 1..14 : TableRule(i, f)}

FirstMin(S) == CHOOSE i \in S : \A j \in S : i <= j

\* C1: fieldToColumnType returns the result of the first matching rule of
\* the ordered 14-rule table (LONG and INT24 give Int32 with UNSIGNED clear
\* and Int64 with it set, the BLOB family gives Bytes for character set 63
\* and Text otherwise), and fails with UnsupportedNativeDataType when no
\* rule matches.
C1_FirstMatchingRule ==
    Called =>
        /\ IF TableMatches(field) = {}
           THEN ret.kind = "throw"
           ELSE ret = Return(TableResult[FirstMin(TableMatches(field))])
        /\ (field.columnType \in {3, 9} =>
              ret = Return(IF UnsignedBit(field) THEN "Int64" ELSE "Int32"))
        /\ (field.columnType \in {249, 250, 251, 252} =>
              ret = Return(IF field.characterSet = 63 THEN "Bytes" ELSE "Text"))

C1_Witness ==
    /\ Called
    /\ field.columnType = 3
    /\ UnsignedBit(field)
    /\ ret = Return("Int64")

\* C2 (as claimed): for a supported wire code and any flags, character set
\* and declared length, fieldToColumnType returns a column type and never
\* fails.
C2_TotalOverSupported ==
    (Called /\ field.columnType \in SupportedCodes /\ field.columnLength # Undefined)
        => ret.kind = "return"

\* the name the wire type table gives a code, "Unknown" for an absent code
TableName(c) ==
    IF c = 248 THEN "SET" ELSE IF c = 255 THEN "GEOMETRY" ELSE "Unknown"

C8_BitLengthDecides ==
    (Called /\ field.columnType = 16 /\ field.columnLength # Undefined) =>
        ret = Return(IF field.columnLength = 1 THEN "Boolean" ELSE "Bytes")

\* the rule predicates of fieldToColumnType, in the order it tries them
Predicate(i, f) ==
    CASE i = 1 -> isReal(f)
      [] i = 2 -> isFloat(f)
      [] i = 3 -> isDouble(f)
      [] i = 4 -> isInt32(f)
      [] i = 5 -> isInt64(f)
      [] i = 6 -> isDateTime(f)
      [] i = 7 -> isTime(f)
      [] i = 8 -> isDate(f)
      [] i = 9 -> isText(f)
      [] i = 10 -> isBytes(f)
      [] i = 11 -> isBool(f)
      [] i = 12 -> isJson(f)
      [] i = 13 -> isEnum(f)
      [] i = 14 -> isNull(f)

Holding(f) == {i \in 1..14 : Predicate(i, f)}

\* C10 (amended): at most one of the thirteen predicates other than isEnum
\* holds of a descriptor, and at most one of all fourteen when the ENUM flag
\* bit is clear; with the ENUM flag bit set isEnum holds together with
\* whichever other predicate holds, and the earlier rule decides the result.
C10_ExclusiveExceptEnumFlag ==
    Called =>
        /\ Cardinality(Holding(field) \ {13}) <= 1
        /\ (~EnumBit(field) => Cardinality(Holding(field)) <= 1)
        /\ (Cardinality(Holding(field)) > 1 =>
              /\ EnumBit(field)
              /\ ret = Return(TableResult[FirstMin(Holding(field))]))

C10_Witness ==
    /\ Called
    /\ field.columnType = 254
    /\ EnumBit(field)
    /\ Holding(field) = {9, 13}
    /\ ret = Return("Text")

\* C10 (as claimed): at most one of the fourteen rule predicates holds of
\* any descriptor.
C10_MutuallyExclusive == Called => Cardinality(Holding(field)) <= 1

(***************************************************************************)
(* Properties of the queryable                                             *)
(***************************************************************************)

Rejected == op \in {"queryRaw", "executeRaw"} /\ outcome.kind = "reject"

\* C5 (amended): when the client rejects with a failure carrying a non-zero
\* status code, queryRaw and executeRaw return (do not throw) the error
\* value { kind: "Mysql", code, message, state } with the failure's code,
\* message and state copied unchanged.
C5_DriverFailureTranslated ==
    (Rejected /\ outcome.error.code \notin {Undefined, 0}) =>
        result = [kind |-> "err",
                  error |-> [kind |-> "Mysql", code |-> outcome.error.code,
                             message |-> outcome.error.message,
                             state |-> outcome.error.state]]

C5_Witness ==
    /\ op = "queryRaw"
    /\ outcome = [kind |-> "reject",
                  error |-> [code |-> 1045, message |-> "Access denied", state |-> "28000"]]
    /\ result = [kind |-> "err",
                 error |-> [kind |-> "Mysql", code |-> 1045,
                            message |-> "Access denied", state |-> "28000"]]

\* C5 (as claimed): a failure carrying a status code, a message and a state
\* is returned as { kind: "DatabaseError", code, message, state }.
C5_DatabaseErrorKind ==
    (Rejected /\ outcome.error = [code |-> 1045, message |-> "Access denied",
                                  state |-> "28000"]) =>
        result = [kind |-> "err",
                  error |-> [kind |-> "DatabaseError", code |-> 1045,
                             message |-> "Access denied", state |-> "28000"]]

\* the fields of the client's answer no rule of the table classifies
TableUnclassifiable(fs) == {i \in 1..Len(fs) : TableMatches(fs[i]) = {}}

\* C6: queryRaw returns no partial envelope: when a returned field is
\* unclassifiable the call returns the error UnsupportedNativeDataType
\* naming the type of the first such field, wherever it stands; every ok
\* envelope has one column name and one classified column type per returned
\* field, in field order.
C6_NoPartialEnvelope ==
    (op = "queryRaw" /\ outcome.kind = "resolve") =>
        LET fs == outcome.fields
            bad == TableUnclassifiable(fs)
        IN IF bad # {}
           THEN result = [kind |-> "err",
                          error |-> [kind |-> "UnsupportedNativeDataType",
                                     type |-> TableName(fs[FirstMin(bad)].columnType)]]
           ELSE /\ result.kind = "ok"
                /\ Len(result.value.columnNames) = Len(fs)
                /\ Len(result.value.columnTypes) = Len(result.value.columnNames)
                /\ \A i \in 1..Len(fs) :
                      /\ result.value.columnNames[i] = fs[i].name
                      /\ result.value.columnTypes[i]
                            = TableResult[FirstMin(TableMatches(fs[i]))]

C6_Witness ==
    /\ op = "queryRaw"
    /\ outcome.kind = "resolve"
    /\ Len(outcome.fields) = 3
    /\ TableUnclassifiable(outcome.fields) = {3}
    /\ result = [kind |-> "err",
                 error |-> [kind |-> "UnsupportedNativeDataType", type |-> "SET"]]

\* C7 (amended): a failure of the client without a non-zero status code is
\* re-raised unchanged by queryRaw and executeRaw and never converted into
\* an error value; every failure with a non-zero status code is converted,
\* whether or not it carries a message and a state.
C7_ConvertedIffCode ==
    Rejected =>
        IF outcome.error.code \in {Undefined, 0}
        THEN result = [kind |-> "throw", error |-> outcome.error]
        ELSE result.kind = "err"

C7_Witness ==
    /\ op = "executeRaw"
    /\ outcome.kind = "reject"
    /\ outcome.error.code = Undefined
    /\ outcome.error.message = "Access denied"
    /\ result = [kind |-> "throw", error |-> outcome.error]

FullShape(e) == e.code # Undefined /\ e.message # NoString /\ e.state # NoString

\* C7 (as claimed): a failure lacking one of status code, message and state
\* is re-raised unchanged and never converted.
C7_ShapelessReraised ==
    (Rejected /\ ~FullShape(outcome.error)) =>
        result = [kind |-> "throw", error |-> outcome.error]

TextDecoded == {7, 12, 10, 8}

\* C9 (amended): queryRaw issues its request with array mode (rowsAsArray)
\* and the field-decoding policy, and the policy decodes exactly TIMESTAMP,
\* DATETIME, DATE and LONGLONG fields as their text and leaves every other
\* field to the driver's default decoder; executeRaw issues its request
\* with the statement and its values only, without array mode and without
\* the policy.
C9_RequestOptions ==
    /\ op = "queryRaw" =>
          /\ options.rowsAsArray
          /\ options.typeCast
          /\ (outcome.kind = "resolve" =>
                \A k \in 1..Len(outcome.data.rows) : \A i \in 1..Len(outcome.fields) :
                    outcome.data.rows[k][i]
                        = IF outcome.fields[i].columnType \in TextDecoded
                          THEN "string" ELSE "next")
    /\ op = "executeRaw" => (~options.rowsAsArray /\ ~options.typeCast)

C9_Witness ==
    /\ op = "queryRaw"
    /\ outcome.kind = "resolve"
    /\ Len(outcome.data.rows) = 1
    /\ Len(outcome.fields) = 2
    /\ outcome.fields[1].columnType = 8
    /\ outcome.fields[2].columnType = 3
    /\ outcome.data.rows[1] = <<"string", "next">>

\* C9 (as claimed): both queryRaw and executeRaw issue their request with
\* array mode and the field-decoding policy.
C9_BothInstallPolicy ==
    op \in {"queryRaw", "executeRaw"} => (options.rowsAsArray /\ options.typeCast)

(***************************************************************************)
(* Properties of the transaction                                           *)
(***************************************************************************)

\* C4 (amended): every commit and every rollback call on a MySqlTransaction
\* releases its connection exactly once, so the number of release calls is
\* the number of commit and rollback calls made: 1 after exactly one call,
\* and 2 after a commit followed by a rollback.
C4_ReleasePerCall ==
    \A t \in 1..Len(txs) : txs[t].releases = txs[t].commits + txs[t].rollbacks

C4_Witness ==
    \E t \in 1..Len(txs) :
        /\ txs[t].commits = 1
        /\ txs[t].rollbacks = 1
        /\ txs[t].releases = 2

\* C4 (as claimed): after any sequence of commit and rollback calls with at
\* least one call, the connection has been released exactly once.
C4_ReleasedExactlyOnce ==
    \A t \in 1..Len(txs) : CallsOn(txs[t]) >= 1 => txs[t].releases = 1

====
